---- MODULE Spec2Model ----
(***************************************************************************)
(* Model of disk_led_monitor.c: the process from the installation of the   *)
(* signal handlers (main, line 183) to its exit.  One action per statement *)
(* of main's monitoring loop and of blink_led (the usleep that ends a tick *)
(* is a call and a return); the signal handler is an action that can run   *)
(* between any two statements.  Spec is the program, FairSpec the program  *)
(* whose statements keep being executed, and CallSpec is hash_string and   *)
(* get_diskstats_hash each called once on an argument of its own.          *)
(*                                                                         *)
(* An unsigned long is 64 bits wide (LP64).  TLC's integers are 32 bits,   *)
(* so a fingerprint is kept as a little-endian tuple of 16-bit limbs and   *)
(* the arithmetic of hash_string is done limb by limb, exactly.            *)
(***************************************************************************)
EXTENDS Integers, Sequences, FiniteSets, TLC

\* ------------------------------------------------------------------ bounds
\* Ticks of the monitoring loop a behaviour may start.
MaxTicks == 3
\* Termination signals (SIGINT/SIGTERM) a behaviour may deliver.
MaxSignals == 2
\* Bytes of a string given to hash_string called on its own.
MaxLen == 3
\* Lines of a source given to get_diskstats_hash called on its own.
MaxLines == 2

\* ------------------------------------------------- unsigned long arithmetic
ULongBits == 64
LimbBits == 16
Base == 2^LimbBits
NLimbs == ULongBits \div LimbBits

RECURSIVE AddCarry(_, _, _, _)
AddCarry(a, b, i, carry) ==
    IF i > NLimbs THEN <<>>
    ELSE LET s == a[i] + b[i] + carry
         IN  <<s % Base>> \o AddCarry(a, b, i + 1, s \div Base)

\* a + b in unsigned long arithmetic (the carry out of the top limb is lost)
ULongAdd(a, b) == AddCarry(a, b, 1, 0)

RECURSIVE ShlCarry(_, _, _, _)
ShlCarry(a, k, i, carry) ==
    IF i > NLimbs THEN <<>>
    ELSE LET s == a[i] * (2^k) + carry
         IN  <<s % Base>> \o ShlCarry(a, k, i + 1, s \div Base)

\* a << k in unsigned long arithmetic, 0 <= k < LimbBits
ULongShl(a, k) == ShlCarry(a, k, 1, 0)

RECURSIVE IntLimbs(_, _)
IntLimbs(c, i) ==
    IF i > NLimbs THEN <<>>
    ELSE <<c % Base>> \o IntLimbs(c \div Base, i + 1)

\* the conversion of an int to unsigned long: the value modulo 2^ULongBits
\* (\div rounds down, so a negative int is sign-extended)
ULongOfInt(c) == IntLimbs(c, 1)

\* the value 0 of an unsigned long: what get_diskstats_hash returns for
\* "cannot open" and for "no line matches"
Zero == ULongOfInt(0)

\* ------------------------------------------------------------- hash_string
\* whether plain char is a signed type in this build (it is on x86, it is
\* not on ARM): a choice of the implementation, fixed for the whole run
VARIABLE char_signed

\* the int that c = *str++ assigns for a byte of the string: str is a
\* const char *, so a byte above 127 is a negative char where char is signed
char_to_int(byte) == IF char_signed /\ byte >= 128 THEN byte - 256 ELSE byte

\* strlen(str): the bytes before the first NUL
strlen(str) ==
    IF \E i \in 1..Len(str) : str[i] = 0
    THEN (CHOOSE i \in 1..Len(str) :
              str[i] = 0 /\ \A j \in 1..(i - 1) : str[j] # 0) - 1
    ELSE Len(str)

\* one iteration of the loop: hash = ((hash << 5) + hash) + c
hash_step(hash, c) ==
    ULongAdd(ULongAdd(ULongShl(hash, 5), hash), ULongOfInt(c))

\* The accumulator after iterations lo..hi of while ((c = *str++)), entered
\* with the accumulator hash.  The iterations run in order; the range is
\* halved so that TLC's evaluation stays shallow, and the first half is
\* evaluated (it is an unsigned long: NLimbs limbs) before the second starts.
RECURSIVE hash_loop(_, _, _, _)
hash_loop(str, hash, lo, hi) ==
    IF lo > hi THEN hash
    ELSE IF lo = hi THEN hash_step(hash, char_to_int(str[lo]))
    ELSE LET mid == (lo + hi) \div 2
             first == hash_loop(str, hash, lo, mid)
         IN  IF Len(first) = NLimbs
             THEN hash_loop(str, first, mid + 1, hi)
             ELSE first

\* unsigned long hash = 5381; while ((c = *str++)) { ... } return hash;
hash_string(str) == hash_loop(str, ULongOfInt(5381), 1, strlen(str))

\* ------------------------------------------------- /proc/diskstats contents
\* target_disk = "sda" (the bytes of the string, as the code sees them)
target_disk == <<115, 100, 97>>

\* "   8       0 sda 1 0 8 4\n"
LineSda1 == <<32, 32, 32, 56, 32, 32, 32, 32, 32, 32, 32, 48, 32, 115, 100, 97,
              32, 49, 32, 48, 32, 56, 32, 52, 10>>
\* "   8       0 sda 2 0 16 9\n"
LineSda2 == <<32, 32, 32, 56, 32, 32, 32, 32, 32, 32, 32, 48, 32, 115, 100, 97,
              32, 50, 32, 48, 32, 49, 54, 32, 57, 10>>
\* "   8       1 sda1 5 0 40 7\n": a partition, whose name has the key as prefix
LinePart == <<32, 32, 32, 56, 32, 32, 32, 32, 32, 32, 32, 49, 32, 115, 100, 97,
              49, 32, 53, 32, 48, 32, 52, 48, 32, 55, 10>>
\* "   8      16 sdb 7 0 56 3\n": another disk
LineSdb == <<32, 32, 32, 56, 32, 32, 32, 32, 32, 32, 49, 54, 32, 115, 100, 98,
             32, 55, 32, 48, 32, 53, 54, 32, 51, 10>>
\* "   8       0 sda 1022051 4906101 6350367 5547644 0 0 0 0 0 0 0\n":
\* a line of sda whose 64-bit hash_string is 0
LineZero == <<32, 32, 32, 56, 32, 32, 32, 32, 32, 32, 32, 48, 32, 115, 100, 97,
              32, 49, 48, 50, 50, 48, 53, 49, 32, 52, 57, 48, 54, 49, 48, 49,
              32, 54, 51, 53, 48, 51, 54, 55, 32, 53, 53, 52, 55, 54, 52, 52,
              32, 48, 32, 48, 32, 48, 32, 48, 32, 48, 32, 48, 32, 48, 10>>

\* What fopen(DISKSTATS_PATH) and the fgets loop can meet: the file cannot
\* be opened, or it holds these lines.
Unreadable == [open |-> FALSE, lines |-> <<>>]
File(ls) == [open |-> TRUE, lines |-> ls]
Sources ==
    { Unreadable,
      File(<<>>),
      File(<<LineSdb>>),
      File(<<LineSda1>>),
      File(<<LineSdb, LineSda2>>),
      File(<<LinePart, LineSda1>>),
      File(<<LineSda1, LineSda2>>),
      File(<<LineZero, LineSdb>>) }

\* strstr(buffer, key) != NULL
strstr(buffer, key) ==
    \E k \in 0..(Len(buffer) - Len(key)) :
        \A j \in 1..Len(key) : buffer[k + j] = key[j]

\* Variant of the fgets loop without the break: the last line that contains
\* target_disk is the one left in buffer
RECURSIVE scan_last(_, _)
scan_last(lines, i) ==
    IF i > Len(lines) THEN <<>>
    ELSE LET later == scan_last(lines, i + 1)
         IN  IF later # <<>> THEN later
             ELSE IF strstr(lines[i], target_disk) THEN lines[i]
             ELSE <<>>

\* the fgets loop of get_diskstats_hash and check_disk_exists: the first line
\* that contains target_disk, <<>> when there is none (found = 0)
RECURSIVE scan(_, _)
scan(lines, i) ==
    IF i > Len(lines) THEN <<>>
    ELSE IF strstr(lines[i], target_disk) THEN lines[i]
    ELSE scan(lines, i + 1)

matched_line(src) == IF src.open THEN scan(src.lines, 1) ELSE <<>>

get_diskstats_hash(src) ==
    IF ~src.open THEN Zero
    ELSE LET buffer == scan(src.lines, 1)
         IN  IF buffer = <<>> THEN Zero ELSE hash_string(buffer)

check_disk_exists(src) == src.open /\ scan(src.lines, 1) # <<>>

\* Variants of has_changed with one plausible slip each.
\* || written for &&
has_changed_or(previous, current) == current # previous \/ current # Zero
\* the test for the zero sentinel left out
has_changed_no_zero_check(previous, current) == current # previous
\* the sentinel test applied to the baseline instead of the new reading
has_changed_swapped(previous, current) == previous # current /\ previous # Zero
\* a zero baseline treated as "nothing to compare with yet"
has_changed_from_known(previous, current) ==
    current # previous /\ current # Zero /\ previous # Zero
\* the new reading compared with the sentinel only, not with the baseline
has_changed_vs_zero(previous, current) == current # Zero

\* the condition of the if statement of the loop: (previous, current) are
\* (last_hash, current_hash)
has_changed(previous, current) == current # previous /\ current # Zero

\* -------------------------------------------------------------------- state
VARIABLES
    pc,              \* the statement main is about to execute
    running,         \* static volatile int running
    debug_mode,      \* static int debug_mode (the -v flag)
    last_hash,       \* main's last_hash
    current_hash,    \* main's current_hash
    activity_count,  \* main's activity_count
    led,             \* the brightness last stored in the LED's file, -1: none yet
    exit_status,     \* main's return value, -1 while it runs
    \* observations of the run (no statement reads them)
    ticks,           \* iterations of the loop started so far
    signals,         \* signals delivered so far
    handler_io,      \* stdio calls made inside signal_handler
    reading,         \* the line the most recent scan matched, <<>>: none
    t_base,          \* last_hash when the current tick started
    t_count,         \* activity_count when the current tick started
    t_steps,         \* the statements the current tick has executed, in order
    t_sig,           \* a signal was delivered inside the current tick
    t_fail,          \* a write of the LED failed in the current tick
    prev,            \* the tick before the current one: what it read and did
    good_hash,       \* the most recent non-zero value get_diskstats_hash returned
    good_line,       \* the record of the most recent completed reading that found one
    outage,          \* completed readings without a record since good_line
    outage_blinks,   \* calls of blink_led since the reading of good_line completed
    last_attempt,    \* the brightness of the last call of set_led_brightness, -1: none
    last_stored,     \* whether that call stored its value
    pulse_sig,       \* a signal was delivered inside the current or last pulse
    precheck,        \* the check of main that failed: "led", "disk", "access", or "none"
    reads,           \* calls of get_diskstats_hash made by main so far
    zero_run,        \* every call of get_diskstats_hash by main so far returned 0
    t_first,         \* the current tick took the first non-zero reading of the run
    writes,          \* calls of set_led_brightness so far
    pulses,          \* calls of blink_led so far
    t_on,            \* the first write of the current tick's pulse: "none", "stored", "failed"
    t_err,           \* the error of the current tick's reading, "none" without one
    t_wait,          \* the usleep that ends the current tick: "none", "full" or "cut"
    late_reads,      \* calls of get_diskstats_hash begun with running cleared
    late_pulses,     \* calls of blink_led begun with running cleared
    summary,         \* the count printed by the closing printf, -1: nothing printed
    \* a function of the program called on its own
    fn,              \* the function called, "main" for the whole program
    fn_arg,          \* its argument
    fn_ret           \* what it returned, <<>> before it returns

proc_vars == <<pc, running, debug_mode, last_hash, current_hash, activity_count,
          led, exit_status, ticks, signals, handler_io, reading, t_base,
          t_count, t_steps, t_sig, t_fail, prev, good_hash, good_line, outage,
          outage_blinks, last_attempt, last_stored, pulse_sig, precheck,
          reads, zero_run, t_first, writes, pulses, t_on, t_err,
          t_wait, late_reads, late_pulses, summary, char_signed, fn, fn_arg>>
vars == <<proc_vars, fn_ret>>

main_vars == <<last_hash, current_hash, activity_count>>
led_vars == <<led, last_attempt, last_stored>>
tick_vars == <<ticks, t_base, t_count, t_steps, t_fail, prev>>
read_vars == <<reading, good_hash, good_line, outage>>
sig_vars == <<running, signals, handler_io, t_sig, pulse_sig>>
obs_read == <<reads, zero_run, t_first, t_err, late_reads>>
obs_led == <<writes, pulses, t_on, late_pulses>>
obs_end == <<precheck, summary>>
call_vars == <<char_signed, fn, fn_arg, fn_ret>>

NoTick == [valid |-> FALSE, line |-> <<>>, hash |-> Zero, changed |-> FALSE,
           fail |-> FALSE]

\* the process when main has installed its handlers (line 184)
Start ==
    /\ pc = "check_led"
    /\ running = 1
    /\ debug_mode \in {0, 1}
    /\ last_hash = Zero
    /\ current_hash = Zero
    /\ activity_count = 0
    /\ led = -1
    /\ exit_status = -1
    /\ ticks = 0
    /\ signals = 0
    /\ handler_io = 0
    /\ reading = <<>>
    /\ t_base = Zero
    /\ t_count = 0
    /\ t_steps = <<>>
    /\ t_sig = FALSE
    /\ t_fail = FALSE
    /\ prev = NoTick
    /\ good_hash = Zero
    /\ good_line = <<>>
    /\ outage = 0
    /\ outage_blinks = 0
    /\ last_attempt = -1
    /\ last_stored = FALSE
    /\ pulse_sig = FALSE
    /\ precheck = "none"
    /\ reads = 0
    /\ zero_run = TRUE
    /\ t_first = FALSE
    /\ writes = 0
    /\ pulses = 0
    /\ t_on = "none"
    /\ t_err = "none"
    /\ t_wait = "none"
    /\ late_reads = 0
    /\ late_pulses = 0
    /\ summary = -1
    /\ char_signed \in BOOLEAN

\* the whole program runs
Init ==
    /\ Start
    /\ fn = "main"
    /\ fn_arg = <<>>
    /\ fn_ret = <<>>

\* the statements of one iteration of the loop
InTick == {"read", "if", "printf", "blink_on", "blink_hold", "blink_off",
           "assign", "usleep", "sleeping"}
\* blink_led between its two writes
InPulse == {"blink_hold", "blink_off"}

\* ------------------------------------------------------------ signal_handler
\* SIGINT or SIGTERM is delivered: the handler runs to its end between two
\* statements of main (signal() of glibc keeps the handler installed and
\* restarts interrupted system calls; a usleep it interrupts returns early).
\* With debug_mode set the handler calls printf, which is not
\* async-signal-safe; handler_io counts these calls.
signal_handler ==
    /\ pc # "exit"
    /\ signals < MaxSignals
    /\ signals' = signals + 1
    /\ handler_io' = IF debug_mode # 0 THEN handler_io + 1 ELSE handler_io
    /\ running' = 0
    /\ t_sig' = (t_sig \/ pc \in InTick)
    /\ pulse_sig' = (pulse_sig \/ pc \in InPulse)
    /\ t_wait' = IF pc = "sleeping" THEN "cut" ELSE t_wait
    /\ UNCHANGED <<pc, debug_mode, exit_status, outage_blinks>>
    /\ UNCHANGED <<main_vars, led_vars, tick_vars, read_vars>>
    /\ UNCHANGED <<obs_read, obs_led, obs_end, call_vars>>

\* ------------------------------------------------------------ main: startup
\* if (!check_led_exists()) return 1;
MainCheckLed ==
    /\ pc = "check_led"
    /\ \E opened \in BOOLEAN :
        /\ pc' = IF opened THEN "check_disk" ELSE "exit"
        /\ exit_status' = IF opened THEN exit_status ELSE 1
        /\ precheck' = IF opened THEN precheck ELSE "led"
    /\ UNCHANGED <<debug_mode, outage_blinks>>
    /\ UNCHANGED <<main_vars, led_vars, tick_vars, read_vars, sig_vars>>
    /\ UNCHANGED <<summary, t_wait, obs_read, obs_led, call_vars>>

\* if (!check_disk_exists()) return 1;
MainCheckDisk ==
    /\ pc = "check_disk"
    /\ \E src \in Sources :
        /\ pc' = IF check_disk_exists(src) THEN "access" ELSE "exit"
        /\ exit_status' = IF check_disk_exists(src) THEN exit_status ELSE 1
        /\ precheck' = IF check_disk_exists(src) THEN precheck ELSE "disk"
    /\ UNCHANGED <<debug_mode, outage_blinks>>
    /\ UNCHANGED <<main_vars, led_vars, tick_vars, read_vars, sig_vars>>
    /\ UNCHANGED <<summary, t_wait, obs_read, obs_led, call_vars>>

\* Variant of the last check: the failure is reported but main goes on
MainAccess_ignored ==
    /\ pc = "access"
    /\ \E readable \in BOOLEAN :
        /\ pc' = "baseline"
        /\ exit_status' = exit_status
        /\ precheck' = IF readable THEN precheck ELSE "access"
    /\ UNCHANGED <<debug_mode, outage_blinks>>
    /\ UNCHANGED <<main_vars, led_vars, tick_vars, read_vars, sig_vars>>
    /\ UNCHANGED <<summary, t_wait, obs_read, obs_led, call_vars>>

\* if (access(DISKSTATS_PATH, R_OK) != 0) return 1;
MainAccess ==
    /\ pc = "access"
    /\ \E readable \in BOOLEAN :
        /\ pc' = IF readable THEN "baseline" ELSE "exit"
        /\ exit_status' = IF readable THEN exit_status ELSE 1
        /\ precheck' = IF readable THEN precheck ELSE "access"
    /\ UNCHANGED <<debug_mode, outage_blinks>>
    /\ UNCHANGED <<main_vars, led_vars, tick_vars, read_vars, sig_vars>>
    /\ UNCHANGED <<summary, t_wait, obs_read, obs_led, call_vars>>

\* unsigned long last_hash = get_diskstats_hash(); int activity_count = 0;
MainBaseline ==
    /\ pc = "baseline"
    /\ \E src \in Sources :
        LET line == matched_line(src)
        IN  /\ last_hash' = get_diskstats_hash(src)
            /\ reading' = line
            /\ good_hash' = IF last_hash' # Zero THEN last_hash'
                             ELSE good_hash
            /\ good_line' = line
            /\ outage' = IF line # <<>> THEN 0 ELSE 1
            /\ zero_run' = (last_hash' = Zero)
    /\ reads' = reads + 1
    /\ late_reads' = IF running = 0 THEN late_reads + 1 ELSE late_reads
    /\ activity_count' = 0
    /\ pc' = "while"
    /\ UNCHANGED <<current_hash, debug_mode, exit_status, outage_blinks>>
    /\ UNCHANGED <<led_vars, tick_vars, sig_vars>>
    /\ UNCHANGED <<t_first, t_err, t_wait, obs_led, obs_end, call_vars>>

\* --------------------------------------------------------- main: the loop
\* Variant of the test of the loop: while (1), the flag is not looked at
MainWhile_forever ==
    /\ pc = "while"
    /\ ticks < MaxTicks
    /\ pc' = "read"
    /\ ticks' = ticks + 1
    /\ t_base' = last_hash
    /\ t_count' = activity_count
    /\ t_steps' = <<>>
    /\ t_sig' = FALSE
    /\ t_fail' = FALSE
    /\ t_wait' = "none"
    /\ t_first' = FALSE
    /\ t_err' = "none"
    /\ t_on' = "none"
    /\ UNCHANGED <<running, signals, handler_io, pulse_sig, prev>>
    /\ UNCHANGED <<debug_mode, exit_status, outage_blinks>>
    /\ UNCHANGED <<main_vars, led_vars, read_vars>>
    /\ UNCHANGED <<reads, zero_run, late_reads, writes, pulses, late_pulses>>
    /\ UNCHANGED <<obs_end, call_vars>>

\* while (running)
MainWhile ==
    /\ pc = "while"
    /\ IF running # 0
       THEN /\ ticks < MaxTicks
            /\ pc' = "read"
            /\ ticks' = ticks + 1
            /\ t_base' = last_hash
            /\ t_count' = activity_count
            /\ t_steps' = <<>>
            /\ t_sig' = FALSE
            /\ t_fail' = FALSE
            /\ t_wait' = "none"
            /\ t_first' = FALSE
            /\ t_err' = "none"
            /\ t_on' = "none"
       ELSE /\ pc' = "summary"
            /\ UNCHANGED <<ticks, t_base, t_count, t_steps, t_sig, t_fail>>
            /\ UNCHANGED <<t_wait, t_first, t_err, t_on>>
    /\ UNCHANGED <<running, signals, handler_io, pulse_sig, prev>>
    /\ UNCHANGED <<debug_mode, exit_status, outage_blinks>>
    /\ UNCHANGED <<main_vars, led_vars, read_vars>>
    /\ UNCHANGED <<reads, zero_run, late_reads, writes, pulses, late_pulses>>
    /\ UNCHANGED <<obs_end, call_vars>>

\* Variant of the read: a source that cannot be opened ends the loop
\* (if (current_hash == 0 && errno) break;)
MainRead_abort ==
    /\ pc = "read"
    /\ \E src \in Sources :
        LET line == matched_line(src)
        IN  /\ current_hash' = get_diskstats_hash(src)
            /\ reading' = line
            /\ good_hash' = IF current_hash' # Zero THEN current_hash'
                             ELSE good_hash
            /\ zero_run' = (zero_run /\ current_hash' = Zero)
            /\ t_first' = (zero_run /\ current_hash' # Zero)
            /\ t_err' = IF ~src.open THEN "SourceUnavailable"
                        ELSE IF line = <<>> THEN "RecordNotFound"
                        ELSE "none"
            /\ pc' = IF src.open THEN "if" ELSE "summary"
    /\ reads' = reads + 1
    /\ late_reads' = IF running = 0 THEN late_reads + 1 ELSE late_reads
    /\ t_steps' = Append(t_steps, "read")
    /\ UNCHANGED <<last_hash, activity_count, good_line, outage>>
    /\ UNCHANGED <<ticks, t_base, t_count, t_fail, prev>>
    /\ UNCHANGED <<debug_mode, exit_status, outage_blinks>>
    /\ UNCHANGED <<led_vars, sig_vars>>
    /\ UNCHANGED <<t_wait, obs_led, obs_end, call_vars>>

\* current_hash = get_diskstats_hash();
MainRead ==
    /\ pc = "read"
    /\ \E src \in Sources :
        LET line == matched_line(src)
        IN  /\ current_hash' = get_diskstats_hash(src)
            /\ reading' = line
            /\ good_hash' = IF current_hash' # Zero THEN current_hash'
                             ELSE good_hash
            /\ zero_run' = (zero_run /\ current_hash' = Zero)
            /\ t_first' = (zero_run /\ current_hash' # Zero)
            /\ t_err' = IF ~src.open THEN "SourceUnavailable"
                        ELSE IF line = <<>> THEN "RecordNotFound"
                        ELSE "none"
    /\ reads' = reads + 1
    /\ late_reads' = IF running = 0 THEN late_reads + 1 ELSE late_reads
    /\ pc' = "if"
    /\ t_steps' = Append(t_steps, "read")
    /\ UNCHANGED <<last_hash, activity_count, good_line, outage>>
    /\ UNCHANGED <<ticks, t_base, t_count, t_fail, prev>>
    /\ UNCHANGED <<debug_mode, exit_status, outage_blinks>>
    /\ UNCHANGED <<led_vars, sig_vars>>
    /\ UNCHANGED <<t_wait, obs_led, obs_end, call_vars>>

\* Variants of the if statement with one plausible slip each.
\* last_hash = current_hash placed after the if block instead of inside it
MainIf_assign_always ==
    /\ pc = "if"
    /\ IF has_changed(last_hash, current_hash)
       THEN /\ activity_count' = activity_count + 1
            /\ pc' = "printf"
            /\ last_hash' = last_hash
       ELSE /\ activity_count' = activity_count
            /\ pc' = "usleep"
            /\ last_hash' = current_hash
    /\ t_steps' = Append(t_steps, "if")
    /\ UNCHANGED <<current_hash>>
    /\ UNCHANGED <<ticks, t_base, t_count, t_fail, prev>>
    /\ UNCHANGED <<debug_mode, exit_status, outage_blinks>>
    /\ UNCHANGED <<led_vars, read_vars, sig_vars>>
    /\ UNCHANGED <<t_wait, obs_read, obs_led, obs_end, call_vars>>

\* the condition also tests running, so a signal cancels the rest of the tick
MainIf_checks_running ==
    /\ pc = "if"
    /\ IF running # 0 /\ has_changed(last_hash, current_hash)
       THEN /\ activity_count' = activity_count + 1
            /\ pc' = "printf"
       ELSE /\ activity_count' = activity_count
            /\ pc' = "usleep"
    /\ t_steps' = Append(t_steps, "if")
    /\ UNCHANGED <<last_hash, current_hash>>
    /\ UNCHANGED <<ticks, t_base, t_count, t_fail, prev>>
    /\ UNCHANGED <<debug_mode, exit_status, outage_blinks>>
    /\ UNCHANGED <<led_vars, read_vars, sig_vars>>
    /\ UNCHANGED <<t_wait, obs_read, obs_led, obs_end, call_vars>>

\* activity_count++ placed before the if statement: every tick is counted
MainIf_counts_every_tick ==
    /\ pc = "if"
    /\ activity_count' = activity_count + 1
    /\ pc' = IF has_changed(last_hash, current_hash) THEN "printf" ELSE "usleep"
    /\ t_steps' = Append(t_steps, "if")
    /\ UNCHANGED <<last_hash, current_hash>>
    /\ UNCHANGED <<ticks, t_base, t_count, t_fail, prev>>
    /\ UNCHANGED <<debug_mode, exit_status, outage_blinks>>
    /\ UNCHANGED <<led_vars, read_vars, sig_vars>>
    /\ UNCHANGED <<t_wait, obs_read, obs_led, obs_end, call_vars>>

\* if (current_hash != last_hash && current_hash != 0) { activity_count++;
MainIf ==
    /\ pc = "if"
    /\ IF has_changed(last_hash, current_hash)
       THEN /\ activity_count' = activity_count + 1
            /\ pc' = "printf"
       ELSE /\ activity_count' = activity_count
            /\ pc' = "usleep"
    /\ t_steps' = Append(t_steps, "if")
    /\ UNCHANGED <<last_hash, current_hash>>
    /\ UNCHANGED <<ticks, t_base, t_count, t_fail, prev>>
    /\ UNCHANGED <<debug_mode, exit_status, outage_blinks>>
    /\ UNCHANGED <<led_vars, read_vars, sig_vars>>
    /\ UNCHANGED <<t_wait, obs_read, obs_led, obs_end, call_vars>>

\* if (debug_mode) { printf("Disk activity detected ..."); }
MainPrintf ==
    /\ pc = "printf"
    /\ pc' = "blink_on"
    /\ t_steps' = Append(t_steps, "printf")
    /\ UNCHANGED <<ticks, t_base, t_count, t_fail, prev>>
    /\ UNCHANGED <<debug_mode, exit_status, outage_blinks>>
    /\ UNCHANGED <<main_vars, led_vars, read_vars, sig_vars>>
    /\ UNCHANGED <<t_wait, obs_read, obs_led, obs_end, call_vars>>

\* set_led_brightness: fopen(path, "w") may fail (the function returns -1);
\* the value reaches the file when fclose flushes it, which is not checked
\* (the function returns 0 either way).  blink_led ignores the return value.
set_led_brightness(brightness, opened, flushed) ==
    /\ led' = IF opened /\ flushed THEN brightness ELSE led
    /\ last_attempt' = brightness
    /\ last_stored' = (opened /\ flushed)
    /\ t_fail' = (t_fail \/ ~(opened /\ flushed))
    /\ writes' = writes + 1

\* Variant of the first write: blink_led returns when it fails
\* (if (set_led_brightness(1) < 0) return;)
BlinkOn_fail_returns ==
    /\ pc = "blink_on"
    /\ \E opened \in BOOLEAN, flushed \in BOOLEAN :
        /\ set_led_brightness(1, opened, flushed)
        /\ t_on' = IF opened /\ flushed THEN "stored" ELSE "failed"
        /\ pc' = IF opened THEN "blink_hold" ELSE "assign"
    /\ pulses' = pulses + 1
    /\ late_pulses' = IF running = 0 THEN late_pulses + 1 ELSE late_pulses
    /\ t_steps' = Append(t_steps, "blink_on")
    /\ outage_blinks' = outage_blinks + 1
    /\ pulse_sig' = FALSE
    /\ UNCHANGED <<t_wait, obs_read, obs_end, call_vars>>
    /\ UNCHANGED <<running, signals, handler_io, t_sig>>
    /\ UNCHANGED <<ticks, t_base, t_count, prev>>
    /\ UNCHANGED <<debug_mode, exit_status>>
    /\ UNCHANGED <<main_vars, read_vars>>

\* blink_led: set_led_brightness(1);
BlinkOn ==
    /\ pc = "blink_on"
    /\ \E opened \in BOOLEAN, flushed \in BOOLEAN :
        /\ set_led_brightness(1, opened, flushed)
        /\ t_on' = IF opened /\ flushed THEN "stored" ELSE "failed"
    /\ pulses' = pulses + 1
    /\ late_pulses' = IF running = 0 THEN late_pulses + 1 ELSE late_pulses
    /\ pc' = "blink_hold"
    /\ t_steps' = Append(t_steps, "blink_on")
    /\ outage_blinks' = outage_blinks + 1
    /\ pulse_sig' = FALSE
    /\ UNCHANGED <<t_wait, obs_read, obs_end, call_vars>>
    /\ UNCHANGED <<running, signals, handler_io, t_sig>>
    /\ UNCHANGED <<ticks, t_base, t_count, prev>>
    /\ UNCHANGED <<debug_mode, exit_status>>
    /\ UNCHANGED <<main_vars, read_vars>>

\* Variant of the hold: blink_led returns when the signal has cleared running
BlinkHold_abort ==
    /\ pc = "blink_hold"
    /\ pc' = IF running = 0 THEN "assign" ELSE "blink_off"
    /\ t_steps' = Append(t_steps, "blink_hold")
    /\ UNCHANGED <<ticks, t_base, t_count, t_fail, prev>>
    /\ UNCHANGED <<debug_mode, exit_status, outage_blinks>>
    /\ UNCHANGED <<main_vars, led_vars, read_vars, sig_vars>>
    /\ UNCHANGED <<t_wait, obs_read, obs_led, obs_end, call_vars>>

\* blink_led: usleep(LED_BLINK_DURATION);
BlinkHold ==
    /\ pc = "blink_hold"
    /\ pc' = "blink_off"
    /\ t_steps' = Append(t_steps, "blink_hold")
    /\ UNCHANGED <<ticks, t_base, t_count, t_fail, prev>>
    /\ UNCHANGED <<debug_mode, exit_status, outage_blinks>>
    /\ UNCHANGED <<main_vars, led_vars, read_vars, sig_vars>>
    /\ UNCHANGED <<t_wait, obs_read, obs_led, obs_end, call_vars>>

\* Variant of the second write: a failed write makes main skip the rest of
\* the if block (if (blink_led() < 0) continue;)
BlinkOff_fail_skips_assign ==
    /\ pc = "blink_off"
    /\ \E opened \in BOOLEAN, flushed \in BOOLEAN :
        /\ set_led_brightness(0, opened, flushed)
        /\ pc' = IF opened /\ flushed THEN "assign" ELSE "usleep"
    /\ t_steps' = Append(t_steps, "blink_off")
    /\ UNCHANGED <<ticks, t_base, t_count, prev>>
    /\ UNCHANGED <<debug_mode, exit_status, outage_blinks>>
    /\ UNCHANGED <<main_vars, read_vars, sig_vars>>
    /\ UNCHANGED <<pulses, t_on, late_pulses>>
    /\ UNCHANGED <<t_wait, obs_read, obs_end, call_vars>>

\* blink_led: set_led_brightness(0);
BlinkOff ==
    /\ pc = "blink_off"
    /\ \E opened \in BOOLEAN, flushed \in BOOLEAN :
        set_led_brightness(0, opened, flushed)
    /\ pc' = "assign"
    /\ t_steps' = Append(t_steps, "blink_off")
    /\ UNCHANGED <<ticks, t_base, t_count, prev>>
    /\ UNCHANGED <<debug_mode, exit_status, outage_blinks>>
    /\ UNCHANGED <<main_vars, read_vars, sig_vars>>
    /\ UNCHANGED <<pulses, t_on, late_pulses>>
    /\ UNCHANGED <<t_wait, obs_read, obs_end, call_vars>>

\* Variant of the assignment: the baseline is not updated
MainAssign_skip ==
    /\ pc = "assign"
    /\ pc' = "usleep"
    /\ t_steps' = Append(t_steps, "assign")
    /\ UNCHANGED <<last_hash, current_hash, activity_count>>
    /\ UNCHANGED <<ticks, t_base, t_count, t_fail, prev>>
    /\ UNCHANGED <<debug_mode, exit_status, outage_blinks>>
    /\ UNCHANGED <<led_vars, read_vars, sig_vars>>
    /\ UNCHANGED <<t_wait, obs_read, obs_led, obs_end, call_vars>>

\* Variant of the end of the if block: continue; after the assignment, so
\* a tick that pulsed goes back to the test of the loop without the usleep
MainAssign_continue ==
    /\ pc = "assign"
    /\ last_hash' = current_hash
    /\ pc' = "while"
    /\ t_steps' = Append(t_steps, "assign")
    /\ UNCHANGED <<current_hash, activity_count>>
    /\ UNCHANGED <<ticks, t_base, t_count, t_fail, prev>>
    /\ UNCHANGED <<debug_mode, exit_status, outage_blinks>>
    /\ UNCHANGED <<led_vars, read_vars, sig_vars>>
    /\ UNCHANGED <<t_wait, obs_read, obs_led, obs_end, call_vars>>

\* last_hash = current_hash; }
MainAssign ==
    /\ pc = "assign"
    /\ last_hash' = current_hash
    /\ pc' = "usleep"
    /\ t_steps' = Append(t_steps, "assign")
    /\ UNCHANGED <<current_hash, activity_count>>
    /\ UNCHANGED <<ticks, t_base, t_count, t_fail, prev>>
    /\ UNCHANGED <<debug_mode, exit_status, outage_blinks>>
    /\ UNCHANGED <<led_vars, read_vars, sig_vars>>
    /\ UNCHANGED <<t_wait, obs_read, obs_led, obs_end, call_vars>>

\* usleep(MONITOR_INTERVAL); is called: main sleeps
MainUsleep ==
    /\ pc = "usleep"
    /\ pc' = "sleeping"
    /\ t_wait' = "full"
    /\ t_steps' = Append(t_steps, "usleep")
    /\ prev' = [valid |-> TRUE, line |-> reading, hash |-> current_hash,
                changed |-> activity_count # t_count, fail |-> t_fail]
    /\ good_line' = IF reading # <<>> THEN reading ELSE good_line
    /\ outage' = IF reading # <<>> THEN 0 ELSE outage + 1
    /\ outage_blinks' = IF reading # <<>> THEN 0 ELSE outage_blinks
    /\ UNCHANGED <<reading, good_hash>>
    /\ UNCHANGED <<ticks, t_base, t_count, t_fail>>
    /\ UNCHANGED <<debug_mode, exit_status>>
    /\ UNCHANGED <<main_vars, led_vars, sig_vars>>
    /\ UNCHANGED <<obs_read, obs_led, obs_end, call_vars>>

\* Variant of the return of usleep: a sleep that was cut short is followed
\* by another reading at once, without the test of the loop
MainUsleepReturn_retry ==
    /\ pc = "sleeping"
    /\ pc' = IF t_wait = "cut" THEN "read" ELSE "while"
    /\ UNCHANGED <<debug_mode, exit_status, outage_blinks>>
    /\ UNCHANGED <<main_vars, led_vars, tick_vars, read_vars, sig_vars>>
    /\ UNCHANGED <<t_wait, obs_read, obs_led, obs_end, call_vars>>

\* usleep returns, when the interval has passed or when a handler has run
\* during it (nanosleep fails with EINTR: the rest of the interval is not
\* slept; t_wait is then "cut"), and main is back at the test of the loop
MainUsleepReturn ==
    /\ pc = "sleeping"
    /\ pc' = "while"
    /\ UNCHANGED <<debug_mode, exit_status, outage_blinks>>
    /\ UNCHANGED <<main_vars, led_vars, tick_vars, read_vars, sig_vars>>
    /\ UNCHANGED <<t_wait, obs_read, obs_led, obs_end, call_vars>>

\* if (debug_mode) { printf("Shutting down. ..."); } return 0;
MainReturn ==
    /\ pc = "summary"
    /\ pc' = "exit"
    /\ exit_status' = 0
    /\ summary' = IF debug_mode # 0 THEN activity_count ELSE -1
    /\ UNCHANGED <<debug_mode, outage_blinks>>
    /\ UNCHANGED <<main_vars, led_vars, tick_vars, read_vars, sig_vars>>
    /\ UNCHANGED <<precheck, t_wait, obs_read, obs_led, call_vars>>

Next ==
    \/ signal_handler
    \/ MainCheckLed
    \/ MainCheckDisk
    \/ MainAccess
    \/ MainBaseline
    \/ MainWhile
    \/ MainRead
    \/ MainIf
    \/ MainPrintf
    \/ BlinkOn
    \/ BlinkHold
    \/ BlinkOff
    \/ MainAssign
    \/ MainUsleep
    \/ MainUsleepReturn
    \/ MainReturn

Spec == Init /\ [][Next]_vars

\* ------------------------------------------- the functions on their own
\* hash_string and get_diskstats_hash called once each on an argument, in
\* either build (char_signed): the strings of at most MaxLen bytes over
\* '\n', '1', 'a' and two bytes above 127, and the sources of at most
\* MaxLines lines.
Bytes == {10, 49, 97, 128, 255}
Strings == UNION {[1..n -> Bytes] : n \in 0..MaxLen}
Lines == {LineSda1, LineSda2, LinePart, LineSdb, LineZero}
Files == {Unreadable} \cup
         {File(ls) : ls \in UNION {[1..n -> Lines] : n \in 0..MaxLines}}

CallInit ==
    /\ Start
    /\ \/ fn = "hash_string" /\ fn_arg \in Strings
       \/ fn = "get_diskstats_hash" /\ fn_arg \in Files
    /\ fn_ret = <<>>

\* unsigned long hash_string(const char *str)
Call_hash_string ==
    /\ fn = "hash_string" /\ fn_ret = <<>>
    /\ fn_ret' = hash_string(fn_arg)
    /\ UNCHANGED proc_vars

\* unsigned long get_diskstats_hash()
Call_get_diskstats_hash ==
    /\ fn = "get_diskstats_hash" /\ fn_ret = <<>>
    /\ fn_ret' = get_diskstats_hash(fn_arg)
    /\ UNCHANGED proc_vars

CallNext ==
    \/ Call_hash_string
    \/ Call_get_diskstats_hash

CallSpec == CallInit /\ [][CallNext]_vars

\* The statements of main: every step but the delivery of a signal.
main_step ==
    \/ MainCheckLed \/ MainCheckDisk \/ MainAccess \/ MainBaseline
    \/ MainWhile \/ MainRead \/ MainIf \/ MainPrintf
    \/ BlinkOn \/ BlinkHold \/ BlinkOff \/ MainAssign
    \/ MainUsleep \/ MainUsleepReturn \/ MainReturn

\* The process keeps being scheduled and each of its statements returns:
\* the two sleeps are finite, and the reads and writes are of pseudo-files
\* of procfs and sysfs.  Nothing obliges a signal to be delivered.
FairSpec == Spec /\ WF_vars(main_step)

\* ------------------------------------------------------- reading a tick
\* calls of blink_led in the current tick
BlinkCalls == Cardinality({i \in DOMAIN t_steps : t_steps[i] = "blink_on"})
\* calls of set_led_brightness in the current tick
LedWrites ==
    Cardinality({i \in DOMAIN t_steps : t_steps[i] \in {"blink_on", "blink_off"}})

\* calls of usleep(MONITOR_INTERVAL) in the current tick
Waits == Cardinality({i \in DOMAIN t_steps : t_steps[i] = "usleep"})

\* the statements of a tick that detects a change, and of one that does not
PulseTick == <<"read", "if", "printf", "blink_on", "blink_hold", "blink_off",
               "assign", "usleep">>
QuietTick == <<"read", "if", "usleep">>
IsPrefix(s, t) == Len(s) <= Len(t) /\ \A i \in 1..Len(s) : s[i] = t[i]

\* the reading of the current tick has been taken
TickRead == ticks > 0 /\ pc # "read"
\* the if statement of the current tick has been decided
TickDecided == ticks > 0 /\ pc \notin {"read", "if"}
\* everything of the current tick but its final usleep has been done
TickWorkDone == ticks > 0 /\ pc = "usleep"
\* the current tick is complete
TickComplete == ticks > 0 /\ pc \in {"while", "summary", "exit"}
\* main has returned from the loop's exit
Terminated == pc = "exit" /\ exit_status = 0
\* main is at the test of the loop or inside an iteration
InLoop == pc = "while" \/ pc \in InTick

\* --------------------------------------------------------------------- C1
\* C1: in every tick blink_led is called (once) exactly when the fingerprint
\* read in the tick differs from the baseline the tick started with and is
\* not zero; in particular comparing a value with itself is never a change.
C1_PulseIffChanged ==
    /\ TickComplete =>
         /\ BlinkCalls <= 1
         /\ (BlinkCalls = 1) <=> (current_hash # t_base /\ current_hash # Zero)
    /\ \A x \in {Zero, last_hash, current_hash, good_hash} : ~has_changed(x, x)

\* a complete tick that pulsed against a non-zero baseline, after a quiet tick
C1_Witness ==
    /\ TickComplete /\ pc = "while"
    /\ ticks >= 2 /\ activity_count = 1
    /\ BlinkCalls = 1 /\ t_base # Zero

\* --------------------------------------------------------------------- C2
\* C2: a tick whose reading is zero writes nothing to the LED, leaves
\* last_hash as it was when the tick started and leaves activity_count as it
\* was; it executes the read, the if and the usleep only.
C2_ZeroTickIsQuiet ==
    /\ (TickRead /\ current_hash = Zero) =>
         /\ LedWrites = 0
         /\ ~t_fail
         /\ last_hash = t_base
         /\ activity_count = t_count
    /\ (TickComplete /\ current_hash = Zero) => t_steps = QuietTick

\* a zero reading against a non-zero baseline, after a tick that pulsed
C2_Witness ==
    /\ TickComplete /\ pc = "while"
    /\ current_hash = Zero /\ t_base # Zero
    /\ activity_count > 0

\* --------------------------------------------------------------------- C3
\* C3: at every tick boundary (after the baseline read and after each
\* complete tick) last_hash is the most recent non-zero value that
\* get_diskstats_hash has returned (zero while it has returned none).
C3_BaselineIsLastGood ==
    (pc \in {"while", "summary"} \/ Terminated) => last_hash = good_hash

\* a boundary after a change and then an unreadable tick
C3_Witness ==
    /\ pc = "while" /\ ticks >= 2
    /\ current_hash = Zero /\ prev.valid /\ t_base # Zero
    /\ activity_count > 0
    /\ last_hash = good_hash

\* --------------------------------------------------------------------- C4
\* C4 as stated: a comparison whose first argument (previous) is zero never
\* reports a change.
C4_Original ==
    /\ (pc = "if" /\ last_hash = Zero) => ~has_changed(last_hash, current_hash)
    /\ (TickDecided /\ t_base = Zero) => activity_count = t_count

\* C4 amended: a comparison whose second argument (current) is zero never
\* reports a change, whatever the first argument (previous) is.
C4_ZeroCurrentNeverChanges ==
    /\ (pc = "if" /\ current_hash = Zero) => ~has_changed(last_hash, current_hash)
    /\ (TickDecided /\ current_hash = Zero) => activity_count = t_count

\* the if statement has met a zero reading and a non-zero baseline
C4_Witness ==
    /\ TickDecided /\ pc = "usleep"
    /\ current_hash = Zero /\ t_base # Zero
    /\ activity_count = t_count

\* --------------------------------------------------------------------- C5
\* C5: blink_led is not called in a tick that finds no record, nor in the
\* tick that, after one or more such ticks, finds again the record of the
\* last reading that found one: that tick compares the reading with the
\* baseline of the last good reading, not with zero.
C5_OutageAndRecoveryAreQuiet ==
    TickWorkDone =>
      /\ reading = <<>> => (outage_blinks = 0 /\ BlinkCalls = 0)
      /\ (reading # <<>> /\ reading = good_line /\ outage >= 1) =>
           /\ outage_blinks = 0
           /\ BlinkCalls = 0
           /\ current_hash # Zero => t_base = current_hash

\* the recovery tick after an outage of two ticks, with a non-zero baseline
C5_Witness ==
    /\ TickWorkDone
    /\ reading # <<>> /\ reading = good_line /\ outage >= 2
    /\ current_hash # Zero

\* --------------------------------------------------------------------- C6
\* C6 as stated: when ticks N and N+1 both find the record and its
\* fingerprint differs between them, tick N+1 calls blink_led exactly once
\* and leaves last_hash at its fingerprint; when the fingerprint is the same
\* in both and the baseline equals it, tick N+1 does not call blink_led.
C6_Original ==
    (TickWorkDone /\ prev.valid) =>
      /\ (prev.line # <<>> /\ reading # <<>> /\ prev.hash # current_hash) =>
           (BlinkCalls = 1 /\ last_hash = current_hash)
      /\ (prev.hash = current_hash /\ t_base = current_hash) => BlinkCalls = 0

\* C6 amended: the same, for fingerprints that are both non-zero (a record
\* whose hash_string is 0 reads as "no record").
C6_ChangeBetweenTicksPulsesOnce ==
    (TickWorkDone /\ prev.valid) =>
      /\ (prev.line # <<>> /\ reading # <<>> /\ prev.hash # current_hash
            /\ prev.hash # Zero /\ current_hash # Zero) =>
           (BlinkCalls = 1 /\ last_hash = current_hash)
      /\ (prev.hash = current_hash /\ t_base = current_hash) => BlinkCalls = 0

\* two consecutive ticks found the record with different non-zero fingerprints
C6_Witness ==
    /\ TickWorkDone /\ prev.valid
    /\ prev.line # <<>> /\ reading # <<>>
    /\ prev.hash # Zero /\ current_hash # Zero /\ prev.hash # current_hash
    /\ BlinkCalls = 1

C8_WriteFailureIsAbsorbed ==
    /\ (TickWorkDone /\ t_fail) =>
         /\ activity_count = t_count + 1
         /\ last_hash = current_hash
         /\ t_steps = SubSeq(PulseTick, 1, Len(PulseTick) - 1)
    /\ (TickWorkDone /\ prev.valid /\ prev.fail) =>
         /\ prev.changed
         /\ t_base = prev.hash
         /\ (BlinkCalls = 1) <=> (current_hash # prev.hash /\ current_hash # Zero)
         /\ IsPrefix(t_steps, IF BlinkCalls = 1 THEN PulseTick ELSE QuietTick)
    /\ (pc \in {"summary", "exit"} /\ exit_status # 1) => running = 0
    /\ t_fail => exit_status # 1

\* the tick after a tick with a failed write has detected a change of its own
C8_Witness ==
    /\ TickWorkDone /\ prev.valid /\ prev.fail
    /\ BlinkCalls = 1 /\ running = 1
    /\ activity_count = 2

\* --------------------------------------------------------------------- C9
\* C9: signal_handler does no I/O and no printing, with or without -v: it
\* only clears running.
C9_HandlerDoesNoIO == handler_io = 0

\* -------------------------------------------------------------------- C10
\* C10: a signal changes nothing in the tick it arrives in: every tick
\* executes its statements in order and to the end (read, if, and either the
\* whole pulse and the assignment or nothing, then usleep), and main leaves
\* the loop only from the test of while, with running cleared.
C10_TickRunsToCompletion ==
    /\ ticks > 0 => (IsPrefix(t_steps, PulseTick) \/ IsPrefix(t_steps, QuietTick))
    /\ TickComplete =>
         t_steps = IF current_hash # t_base /\ current_hash # Zero
                   THEN PulseTick ELSE QuietTick
    /\ (pc \in {"summary", "exit"} /\ exit_status # 1) => running = 0
    /\ pc \in InTick => exit_status = -1

\* terminated after a signal that arrived inside a tick that pulsed
C10_Witness == Terminated /\ t_sig /\ BlinkCalls = 1 /\ signals = 1

\* -------------------------------------------------------------------- C11
\* C11: whenever running has been cleared (a signal has been delivered) and
\* main is in the loop, at its test or at any statement of a tick, main
\* eventually returns 0, given that main's statements keep being executed.
C11_ShutdownTerminates == (running = 0 /\ InLoop) ~> Terminated

\* terminated after a signal that cut the last sleep of the loop short
C11_Witness == Terminated /\ t_sig /\ t_wait = "cut" /\ signals = 1

\* -------------------------------------------------------------------- C12
\* C12: main leaves the loop by one step only: the test of while, taken with
\* running cleared by a delivered signal.  A tick whose reading failed
\* (the source could not be opened, no line held the key) or whose write
\* to the LED failed has not made main return, and ends at the usleep like
\* any other tick.
C12_OnlyTheFlagEndsTheLoop ==
    /\ [][(InLoop /\ ~InLoop') =>
            (pc = "while" /\ pc' = "summary" /\ running = 0 /\ signals > 0)]_vars
    /\ []((pc \in InTick /\ (t_err # "none" \/ t_fail)) => exit_status = -1)
    /\ []((TickComplete /\ (t_err # "none" \/ t_fail)) =>
            t_steps[Len(t_steps)] = "usleep")

\* a third tick, with no signal delivered, finds no line with the key after
\* a tick in which a write to the LED failed
C12_Witness ==
    /\ pc = "if" /\ ticks >= 3 /\ running = 1 /\ signals = 0
    /\ t_err = "RecordNotFound"
    /\ prev.valid /\ prev.fail

\* -------------------------------------------------------------------- C13
\* C13: when check_led_exists, check_disk_exists or access has failed, main
\* has returned 1 and has neither called get_diskstats_hash (no baseline,
\* no tick) nor set_led_brightness; and main returns 1 for no other reason.
C13_FailedCheckReturnsBeforeLoop ==
    /\ precheck # "none" =>
         /\ pc = "exit" /\ exit_status = 1
         /\ ticks = 0 /\ reads = 0 /\ last_hash = Zero
         /\ writes = 0 /\ pulses = 0 /\ led = -1 /\ last_attempt = -1
    /\ exit_status = 1 => precheck # "none"
    /\ (reads > 0 \/ writes > 0) => exit_status # 1

\* the last of the three checks failed after the first two had passed
C13_Witness == precheck = "access" /\ pc = "exit" /\ exit_status = 1

\* -------------------------------------------------------------------- C14
\* C14: no step decreases activity_count; a tick adds one to it when its
\* reading is a change against the baseline it started with and nothing
\* otherwise; it equals the number of calls of blink_led (it is one ahead
\* between the increment and the call); and when main has returned from
\* the loop the count it has printed (with -v) is that number.
C14_CountIsPulsesStarted ==
    /\ [][activity_count' >= activity_count]_vars
    /\ [](TickDecided =>
            activity_count =
              t_count + (IF has_changed(t_base, current_hash) THEN 1 ELSE 0))
    /\ [](activity_count =
            pulses + (IF pc \in {"printf", "blink_on"} THEN 1 ELSE 0))
    /\ [](Terminated =>
            /\ activity_count = pulses
            /\ summary = IF debug_mode # 0 THEN pulses ELSE -1)

\* terminated with -v after two of the ticks pulsed: the summary says 2
C14_Witness ==
    /\ Terminated /\ debug_mode = 1
    /\ summary = 2 /\ pulses = 2 /\ ticks = 3

\* -------------------------------------------------------------------- C15
\* C15 as stated: every complete tick has called usleep(MONITOR_INTERVAL)
\* once, as its last statement, and has slept the whole interval.
C15_Original ==
    TickComplete =>
      /\ Waits = 1 /\ t_steps[Len(t_steps)] = "usleep"
      /\ t_wait = "full"

\* C15 amended: every complete tick has called usleep(MONITOR_INTERVAL)
\* once, as its last statement, whether it pulsed or not and whether its
\* writes failed or not, and no tick calls it earlier; the sleep lasted the
\* whole interval unless a signal was delivered during it, and then running
\* is cleared for the test of the loop that follows.
C15_OneWaitEndsEachTick ==
    /\ TickComplete =>
         /\ Waits = 1 /\ t_steps[Len(t_steps)] = "usleep"
         /\ t_wait \in {"full", "cut"}
         /\ t_wait = "cut" => (running = 0 /\ t_sig)
         /\ ~t_sig => t_wait = "full"
    /\ (ticks > 0 /\ pc \in InTick \ {"sleeping"}) =>
         (Waits = 0 /\ t_wait = "none")
    /\ pc = "sleeping" => Waits = 1

\* a tick that pulsed with a failed write is complete, its sleep cut short
C15_Witness ==
    /\ TickComplete /\ pc = "while"
    /\ BlinkCalls = 1 /\ t_fail
    /\ Waits = 1 /\ t_wait = "cut"

\* -------------------------------------------------------------------- C16
\* the lines of a source that contain target_disk, by their position
Hits(src) == {i \in 1..Len(src.lines) : strstr(src.lines[i], target_disk)}
FirstHit(src) == CHOOSE i \in Hits(src) : \A j \in Hits(src) : i <= j

\* C16: get_diskstats_hash returns 0 when the source cannot be opened or no
\* line of it contains target_disk, and otherwise hash_string of the first
\* line that contains it, whatever lines follow and wherever in the line
\* the key is (as the start of a longer name too).
C16_FirstMatchOrZero ==
    (fn = "get_diskstats_hash" /\ fn_ret # <<>>) =>
      IF ~fn_arg.open \/ Hits(fn_arg) = {}
      THEN fn_ret = Zero
      ELSE fn_ret = hash_string(fn_arg.lines[FirstHit(fn_arg)])

\* the line of sda1 precedes the line of sda: the result is the fingerprint
\* of the first, which has the key as the start of a longer name
C16_Witness ==
    /\ fn = "get_diskstats_hash"
    /\ fn_arg = File(<<LinePart, LineSda1>>)
    /\ fn_ret = hash_string(LinePart)
    /\ fn_ret # hash_string(LineSda1)

\* -------------------------------------------------------------------- C17
\* The reference the claim names: acc * 33 + byte modulo 2^ULongBits, from
\* 5381, over the bytes of the string as numbers 0..255 (by multiplication,
\* limb by limb, with the byte as the carry into the lowest limb).
RECURSIVE MulAddCarry(_, _, _, _)
MulAddCarry(a, m, i, carry) ==
    IF i > NLimbs THEN <<>>
    ELSE LET s == a[i] * m + carry
         IN  <<s % Base>> \o MulAddCarry(a, m, i + 1, s \div Base)

RECURSIVE DJB2Upto(_, _)
DJB2Upto(str, n) ==
    IF n = 0 THEN ULongOfInt(5381)
    ELSE MulAddCarry(DJB2Upto(str, n - 1), 33, 1, str[n])

DJB2(str) == DJB2Upto(str, Len(str))

\* C17: what hash_string returns is the DJB2 reference value of its
\* argument, for every string; for the empty string it is 5381, not 0.
C17_EqualsDJB2 ==
    (fn = "hash_string" /\ fn_ret # <<>>) =>
      /\ fn_ret = DJB2(fn_arg)
      /\ fn_arg = <<>> => (fn_ret = ULongOfInt(5381) /\ fn_ret # Zero)

\* What does hold: the two agree where char is unsigned, and on the strings
\* of bytes below 128 in either build.
C17_EqualsDJB2On7Bit ==
    (fn = "hash_string" /\ fn_ret # <<>>
       /\ (~char_signed \/ \A i \in DOMAIN fn_arg : fn_arg[i] < 128)) =>
      /\ fn_ret = DJB2(fn_arg)
      /\ fn_arg = <<>> => (fn_ret = ULongOfInt(5381) /\ fn_ret # Zero)

\* -------------------------------------------------------------------- C18
\* the position in t_steps of the call of blink_led, 0 without one
PulseAt ==
    IF BlinkCalls = 0 THEN 0
    ELSE CHOOSE i \in DOMAIN t_steps : t_steps[i] = "blink_on"

\* C18: the statements of a pulse are set_led_brightness(1), the usleep of
\* the hold and set_led_brightness(0), consecutive and in this order; the
\* only call of get_diskstats_hash of the tick is its first statement, so
\* none falls inside the pulse; each pulse makes two calls of
\* set_led_brightness, the second one also when the first has failed.
C18_PulseIsOnHoldOff ==
    /\ (ticks > 0 /\ PulseAt > 0) =>
         /\ IsPrefix(SubSeq(t_steps, PulseAt, Len(t_steps)),
                      <<"blink_on", "blink_hold", "blink_off", "assign",
                        "usleep">>)
         /\ \A i \in DOMAIN t_steps : t_steps[i] = "read" => i = 1
         /\ PulseAt > 1
    /\ pc \in InPulse => (last_attempt = 1 /\ writes = 2 * pulses - 1)
    /\ pc \notin InPulse => writes = 2 * pulses
    /\ (t_on # "none" /\ pc \notin InPulse) =>
         (LedWrites = 2 /\ last_attempt = 0)
    /\ t_on # "none" <=> (ticks > 0 /\ PulseAt > 0)

\* the first write of a pulse failed; the second was made and stored 0
C18_Witness ==
    /\ pc = "assign" /\ t_on = "failed"
    /\ last_attempt = 0 /\ last_stored /\ led = 0
    /\ LedWrites = 2

\* -------------------------------------------------------------------- C19
\* C19: when the call of get_diskstats_hash before the loop and those of
\* all earlier ticks have returned 0 and the call of this tick returns a
\* non-zero value (t_first), the tick counts a change, calls blink_led
\* once (both writes) and leaves last_hash at the value it read.
C19_FirstReadingAfterZeroBaselinePulses ==
    /\ t_first => (ticks > 0 /\ t_base = Zero /\ current_hash # Zero)
    /\ (TickDecided /\ t_first) =>
         /\ activity_count = t_count + 1
         /\ IsPrefix(t_steps, PulseTick)
    /\ (TickWorkDone /\ t_first) =>
         /\ BlinkCalls = 1 /\ LedWrites = 2
         /\ last_hash = current_hash
    /\ (TickComplete /\ t_first) =>
         (t_steps = PulseTick /\ last_hash = current_hash)

\* the baseline and the first tick read 0; the second tick reads a record
C19_Witness ==
    /\ TickWorkDone /\ t_first /\ ticks >= 2
    /\ prev.valid /\ prev.hash = Zero
    /\ BlinkCalls = 1 /\ reading # <<>>

\* -------------------------------------------------------------------- C20
\* C20: no step sets running again once it is cleared, and with running
\* cleared main begins at most one call of get_diskstats_hash and at most
\* one call of blink_led before it returns.
C20_AtMostOneTickAfterSignal ==
    /\ [][running = 0 => running' = 0]_vars
    /\ [](late_reads <= 1 /\ late_pulses <= 1)
    /\ []((late_reads > 0 \/ late_pulses > 0) => running = 0)
    /\ [](running \in {0, 1})

\* the signal came between the test of the loop and the read of a later
\* tick: that tick read and pulsed, then main returned
C20_Witness ==
    /\ Terminated /\ ticks >= 2 /\ t_sig
    /\ late_reads = 1 /\ late_pulses = 1

====
